---- MODULE Spec2Model ----
(***************************************************************************)
(* A state-machine model of the LD-Cool-P curation intake code:            *)
(*   ldcoolp/curation/retrieve.py      private_file_retrieve,              *)
(*                                     download_files                      *)
(*   ldcoolp/curation/api/figshare.py  FigshareInstituteAdmin              *)
(*   ldcoolp/curation/main.py          PrerequisiteWorkflow, workflow      *)
(*   ldcoolp/curation/inspection/readme/__init__.py  ReadmeClass           *)
(*                                                                         *)
(* The specifications share the variables:                                 *)
(*   SpecFetch     download_files called repeatedly on one file list       *)
(*   SpecAccounts  get_account_details                                     *)
(*   SpecListing   the paged listing calls                                 *)
(*   SpecWorkflow  workflow(): constructor, reserve_doi, download_data,    *)
(*                 review report, deposit agreement form, README handler   *)
(*   SpecMove      PrerequisiteWorkflow used directly: constructor,        *)
(*                 reserve_doi, download_data, move_to_next                *)
(*   SpecGroups    get_account_details over several group listings         *)
(*   SpecResume    workflow() invoked again for the same article           *)
(*   SpecReadme    PrerequisiteWorkflow and ReadmeClass used directly      *)
(***************************************************************************)
EXTENDS Integers, Sequences, FiniteSets, TLC

\* ------------------------------------------------------------------ bounds
\* Number of entries of the deposit's file list (fs.list_files).
NFiles == 2
\* Number of consecutive download_files calls on the same list and directory.
MaxRuns == 2

Files == 1..NFiles

\* Largest number of accounts in the institution's base account listing.
NAccounts == 2
\* Largest number of records the service holds in one listed collection.
MaxHeld == 2250
\* Number of consecutive reserve_doi calls on the same article.
MaxCalls == 2
\* Number of consecutive workflow() invocations for the same article.
MaxInvocations == 2

\* ------------------------------------------------- the remote file service
\* What the service does with one retrieval request:
\*   "ok"     the body is delivered whole
\*   "auth"   HTTP 401/403: an HTTPError of the authorization class
\*   "http"   any other HTTP error status (404, 500, ...): also an HTTPError
\*   "net"    a failure that is not an HTTP error, raised before any byte is
\*            written (URLError: connection refused, DNS, timeout)
\*   "short"  the transfer breaks off part-way (ContentTooShortError,
\*            IncompleteRead): not an HTTPError either
Resp == {"ok", "auth", "http", "net", "short"}

VARIABLES
  url_open,     \* download_files' url_open argument (the transport)
  authResp,     \* file -> the service's answer to a request carrying the token
  anonResp,     \* file -> the service's answer to a request without credentials
  disk,         \* file -> "absent" | "partial" | "full": what is at its local path
  dirMode,      \* permission of the data directory: "none" | "rwx" | "rx"
  fpc,          \* position in download_files
  n,            \* loop index of download_files (1-based)
  reqs,         \* retrieval requests issued by the current call, in order
  skipped,      \* files the current call skipped as already existing
  lockCount,    \* calls of permissions.curation(mode=0o555) by the current call
  run,          \* number of download_files calls started
  after1,       \* what was on disk when the first call ended
  log           \* log records, in order

fetchOnly == <<url_open, authResp, anonResp, disk, dirMode, fpc, n, reqs,
              skipped, lockCount, run, after1>>
fetchVars == <<fetchOnly, log>>

\* ------------------------------------------------- private_file_retrieve
\* except HTTPError (urllib.error.HTTPError covers every HTTP error status).
IsHTTPErrorAll(resp) == resp # "ok"
IsHTTPError(resp) == resp \in {"auth", "http"}

\* The credential a request carries: 'Authorization: token ...' iff token.
Credential(token) == IF token THEN "token" ELSE "anon"

\* The service's answer to a request for file f carrying credential cred:
\* a property of the download URL, the same on every request.
Answer(f, cred) == IF cred = "token" THEN authResp[f] ELSE anonResp[f]

\* What private_file_retrieve leaves at filename.  urlretrieve opens the
\* destination once the response has started and writes block by block, so a
\* transfer that breaks off leaves the bytes written so far; the urlopen
\* transport reads the whole body before it opens the destination.
Written(old, resp, uo) ==
  IF resp = "ok" THEN "full"
  ELSE IF resp = "short" /\ ~uo THEN "partial"
  ELSE old

\* private_file_retrieve raises on every answer but "ok".
Raises(resp) == resp # "ok"

\* Log records private_file_retrieve appends: the urlretrieve branch logs
\* the HTTPError before re-raising it; the urlopen branch logs nothing.
RetrieveLog(f, resp, uo) ==
  IF ~uo /\ IsHTTPError(resp) THEN << <<"warning", "Caught an HTTPError", f>> >>
  ELSE << >>

\* -------------------------------------------------------- download_files
\* os.path.exists(filename)
Exists(f) == disk[f] # "absent"

\* permissions.curation(path, mode): default mode gives full access.
CurationDefaultMode == "rwx"
LockedMode == "rx"

Req(f, cred, r) == [file |-> f, cred |-> cred, resp |-> r]

\* The credential of the retry in the except HTTPError handler: no token.
RetryTokenKept == TRUE
RetryToken == FALSE

\* Lines 62-102: list the files, create the directory, open it for
\* writing, save the file list.
DownloadFilesEnter ==
  /\ n' = 1
  /\ reqs' = << >>
  /\ skipped' = {}
  /\ lockCount' = 0
  /\ dirMode' = CurationDefaultMode
  /\ fpc' = "loop"
  /\ run' = run + 1
  /\ log' = Append(log, <<"info", "Total number of files", NFiles>>)

\* A direct call of download_files (the first, or a re-run after the
\* previous call returned or raised).
CallDownloadFiles ==
  /\ fpc \in {"idle", "done", "raised"}
  /\ run < MaxRuns
  /\ DownloadFilesEnter
  /\ UNCHANGED <<url_open, authResp, anonResp, disk, after1>>

\* Snapshot of the directory taken when the first call ends.
EndOfCall(d) == IF run = 1 THEN d ELSE after1

\* Lines 108, 124-125: the file exists, nothing is requested.
SkipExisting ==
  /\ fpc = "loop" /\ n <= NFiles
  /\ Exists(n)
  /\ skipped' = skipped \cup {n}
  /\ log' = Append(log, <<"info", "File exists! Not overwriting!", n>>)
  /\ n' = n + 1
  /\ UNCHANGED <<url_open, authResp, anonResp, disk, dirMode, fpc, reqs,
                 lockCount, run, after1>>

\* The rest of one attempt at file n that the service answered with r:
\* where the loop goes and what is logged.  handled: the attempt sits in a
\* try whose except HTTPError clause goes on to `onError`.
AfterAttempt(r, onError, errorLog) ==
  /\ disk' = [disk EXCEPT ![n] = Written(disk[n], r, url_open)]
  /\ IF ~Raises(r)
     THEN /\ log' = Append(log, <<"info", "Success!", n>>)
          /\ n' = n + 1
          /\ fpc' = "loop"
          /\ after1' = after1
     ELSE IF IsHTTPError(r)
     THEN /\ log' = log \o RetrieveLog(n, r, url_open) \o << errorLog >>
          /\ n' = IF onError = "loop" THEN n + 1 ELSE n
          /\ fpc' = onError
          /\ after1' = after1
     ELSE \* not an HTTPError: no handler, download_files raises
          /\ log' = log
          /\ n' = n
          /\ fpc' = "raised"
          /\ after1' = EndOfCall(disk')

\* Lines 108-116: the first attempt, with fs.token.
AuthAttempt ==
  /\ fpc = "loop" /\ n <= NFiles
  /\ ~Exists(n)
  /\ LET r == Answer(n, Credential(TRUE)) IN
       /\ reqs' = Append(reqs, Req(n, Credential(TRUE), r))
       /\ AfterAttempt(r, "retry", <<"info", "URL might be public", n>>)
  /\ UNCHANGED <<url_open, authResp, anonResp, dirMode, skipped, lockCount, run>>

\* Lines 117-123: the retry of the except HTTPError handler, without token.
AnonAttempt ==
  /\ fpc = "retry"
  /\ LET r == Answer(n, Credential(RetryToken)) IN
       /\ reqs' = Append(reqs, Req(n, Credential(RetryToken), r))
       /\ AfterAttempt(r, "loop", <<"warning", "Failed to retrieve", n>>)
  /\ UNCHANGED <<url_open, authResp, anonResp, dirMode, skipped, lockCount, run>>

\* Line 129: after the loop, lock the directory to read and execute only.
LockDirectory ==
  /\ fpc = "loop" /\ n = NFiles + 1
  /\ dirMode' = LockedMode
  /\ lockCount' = lockCount + 1
  /\ fpc' = "done"
  /\ after1' = EndOfCall(disk)
  /\ UNCHANGED <<url_open, authResp, anonResp, disk, n, reqs, skipped, run, log>>


\* ================================================================
\* FigshareInstituteAdmin.get_account_details (api/figshare.py)
\* ================================================================
VARIABLES
  listing,          \* the service's account listing: rows [id, email]
  groups,           \* the service's group listing: rows [id, name]
  ignore_admin,     \* argument of get_account_details
  flag,             \* argument of get_account_details
  apc,              \* position in get_account_details
  accounts_df,      \* rows of the account table (after the filter)
  acc_n,            \* loop index over accounts_df (1-based)
  roles,            \* roles of the account at acc_n, as last fetched
  num_articles,     \* per-row counts
  num_projects,
  num_collections,
  admin_flag,       \* per-row flags, "X" or ""
  reviewer_flag,
  group_assoc,      \* per-row group association, a string
  lookups,          \* per-account requests issued by the call, in order
  result            \* the table get_account_details returned

accountVars == <<listing, groups, ignore_admin, flag, apc, accounts_df, acc_n,
                 roles, num_articles, num_projects, num_collections,
                 admin_flag, reviewer_flag, group_assoc, lookups, result>>

\* Strings that the code takes apart are sequences of characters.
NA == <<"N", "/", "A">>

\* Emails fall into the three classes the filter tells apart: the
\* administrative address, an address containing the test-account
\* substring, any other address.
EmailClasses == {"user", "admin", "test"}
IsAdminEmail(e) == e = "admin"
IsTestEmailNever(e) == FALSE
IsTestEmail(e) == e = "test"

\* Account ids are not row positions, and the listing is not in the order
\* of the ids: the accounts at odd positions have the larger ids.
AccountId(i) == 100 + i + (i % 2) * NAccounts

\* str.replace(old, new): every non-overlapping occurrence, left to right.
RECURSIVE Replace(_, _, _)
Replace(str, old, new) ==
  IF Len(str) < Len(old) \/ Len(old) = 0 THEN str
  ELSE IF SubSeq(str, 1, Len(old)) = old
       THEN new \o Replace(SubSeq(str, Len(old) + 1, Len(str)), old, new)
       ELSE <<Head(str)>> \o Replace(Tail(str), old, new)

\* Rows of a sequence that satisfy a test, order kept.
RECURSIVE DropRows(_, _)
DropRows(rows, drop) ==
  IF rows = << >> THEN << >>
  ELSE IF Head(rows).email \in drop THEN DropRows(Tail(rows), drop)
       ELSE <<Head(rows)>> \o DropRows(Tail(rows), drop)

\* get_account_list, lines 187-195: with ignore_admin, rows whose email is
\* the administrative address or contains the test-account substring are
\* dropped and the index is reset.
get_account_list(rows, ignore) ==
  IF ignore
  THEN DropRows(rows, {e \in EmailClasses : IsAdminEmail(e) \/ IsTestEmail(e)})
  ELSE rows

\* What the service holds for an account: the number of records a count
\* lookup that succeeds returns.
Resources == {"articles", "projects", "collections"}
ResourceNo(res) ==
  CASE res = "articles" -> 1 [] res = "projects" -> 2 [] res = "collections" -> 3
Held(id, res) == 10 * (id - 100) + ResourceNo(res)

\* An answer of the service to a per-account request: a failure (the
\* request raises), a table of `rows` records, or a dict of roles.
Fail == [ok |-> FALSE, rows |-> 0, dict |-> << >>]
Table(k) == [ok |-> TRUE, rows |-> k, dict |-> << >>]
Roles(d) == [ok |-> TRUE, rows |-> 0, dict |-> d]

\* Answers of a count lookup: a failure, or the table of records held.
CountAnswers(id, res) == {Fail, Table(Held(id, res))}

\* Answers of get_account_group_roles: a failure, or a dict from group key
\* to the list of roles held under it (as a sequence of entries, in the
\* dict's order).
RoleDicts ==
  { << >>,
    << [key |-> <<"1", "7">>, ids |-> <<11>>], [key |-> <<"3">>, ids |-> <<2, 49>>] >> }
RoleAnswers == {Fail} \cup {Roles(d) : d \in RoleDicts}

\* Role ids the code knows (lines 251-257).
RoleGroup == 11
RoleAdmin == 2
RoleReviewer == 49

\* Lines 249-257: the last key holding role 11 becomes the row's group;
\* role 2 under any key sets the admin flag, role 49 the reviewer flag.
HasRole(entry, id) == \E j \in DOMAIN entry.ids : entry.ids[j] = id

RECURSIVE GroupKeyOf(_, _)
GroupKeyOf(rs, current) ==
  IF rs = << >> THEN current
  ELSE GroupKeyOf(Tail(rs),
                  IF HasRole(Head(rs), RoleGroup) THEN Head(rs).key ELSE current)

FlagOf(rs, id, current) ==
  IF \E i \in DOMAIN rs : HasRole(rs[i], id) THEN "X" ELSE current

\* Lines 267-270: one pass per group of the listing, in its order,
\* replacing str(group_id) by the group's name in every row's value.
RECURSIVE ResolveGroups(_, _)
ResolveGroups(assoc, gs) ==
  IF gs = << >> THEN assoc
  ELSE ResolveGroups([i \in DOMAIN assoc |->
                         Replace(assoc[i], Head(gs).id, Head(gs).name)],
                     Tail(gs))

\* except Exception around each of the three count lookups.
CountCaughtNever(answer) == FALSE
CountCaught(answer) == answer = Fail

\* The value stored after a count lookup: the number of rows of the table.
StoredCount(old, answer) == IF answer = Fail THEN old ELSE answer.rows

Zeros(k) == [i \in 1..k |-> 0]

Lookup(kind, id, answer) == [kind |-> kind, id |-> id, answer |-> answer]

\* Lines 211-225: fetch the account list and the groups, size the arrays.
\* DataFrame([]) has no column institution_id, so an empty listing makes
\* the drop at line 185 raise KeyError.
CallGetAccountDetails ==
  /\ apc = "idle"
  /\ lookups' = << >>
  /\ IF listing = << >>
     THEN /\ apc' = "raised"
          /\ UNCHANGED <<accounts_df, acc_n, roles, num_articles, num_projects,
                         num_collections, admin_flag, reviewer_flag,
                         group_assoc, log>>
     ELSE LET df == get_account_list(listing, ignore_admin)
              n_accounts == Len(df)
          IN /\ accounts_df' = df
             /\ log' = IF ignore_admin
                       THEN Append(log, <<"info", "Excluding administrative and test accounts", 0>>)
                       ELSE log
             /\ num_articles' = Zeros(n_accounts)
             /\ num_projects' = Zeros(n_accounts)
             /\ num_collections' = Zeros(n_accounts)
             /\ admin_flag' = [i \in 1..n_accounts |-> ""]
             /\ reviewer_flag' = [i \in 1..n_accounts |-> ""]
             /\ group_assoc' = [i \in 1..n_accounts |-> NA]
             /\ acc_n' = 1
             /\ roles' = << >>
             /\ apc' = IF n_accounts = 0 THEN "finish" ELSE "roles"
  /\ UNCHANGED <<listing, groups, ignore_admin, flag, result>>

account_id_of_listing == listing[acc_n].id
account_id == accounts_df[acc_n].id

\* Line 229: the role lookup, outside any try.
RolesLookup ==
  /\ apc = "roles"
  /\ \E answer \in RoleAnswers :
       /\ lookups' = Append(lookups, Lookup("roles", account_id, answer))
       /\ IF answer = Fail
          THEN apc' = "raised" /\ roles' = roles
          ELSE apc' = "articles" /\ roles' = answer.dict
  /\ UNCHANGED <<listing, groups, ignore_admin, flag, accounts_df, acc_n,
                 num_articles, num_projects, num_collections, admin_flag,
                 reviewer_flag, group_assoc, result, log>>

WarnText(res) ==
  CASE res = "articles" -> "Unable to retrieve articles for"
    [] res = "projects" -> "Unable to retrieve projects for"
    [] res = "collections" -> "Unable to retrieve collections for"

\* One of the three count lookups (lines 231-235, 237-241, 243-247): the
\* row's count is stored, or the failure is caught and logged.
CountLookup(res, at, next, num) ==
  /\ apc = at
  /\ \E answer \in CountAnswers(account_id, res) :
       /\ lookups' = Append(lookups, Lookup(res, account_id, answer))
       /\ IF answer = Fail /\ ~CountCaught(answer)
          THEN apc' = "raised" /\ num' = num /\ log' = log
          ELSE /\ apc' = next
               /\ num' = [num EXCEPT ![acc_n] = StoredCount(num[acc_n], answer)]
               /\ log' = IF answer = Fail
                         THEN Append(log, <<"warning", WarnText(res), account_id>>)
                         ELSE log

ArticlesLookup ==
  /\ CountLookup("articles", "articles", "projects", num_articles)
  /\ UNCHANGED <<listing, groups, ignore_admin, flag, accounts_df, acc_n, roles,
                 num_projects, num_collections, admin_flag, reviewer_flag,
                 group_assoc, result>>

ProjectsLookup ==
  /\ CountLookup("projects", "projects", "collections", num_projects)
  /\ UNCHANGED <<listing, groups, ignore_admin, flag, accounts_df, acc_n, roles,
                 num_articles, num_collections, admin_flag, reviewer_flag,
                 group_assoc, result>>

CollectionsLookup ==
  /\ CountLookup("collections", "collections", "flags", num_collections)
  /\ UNCHANGED <<listing, groups, ignore_admin, flag, accounts_df, acc_n, roles,
                 num_articles, num_projects, admin_flag, reviewer_flag,
                 group_assoc, result>>

\* Lines 249-257, then the next account.
ApplyRoles ==
  /\ apc = "flags"
  /\ group_assoc' = [group_assoc EXCEPT ![acc_n] = GroupKeyOf(roles, @)]
  /\ admin_flag' = IF flag
                   THEN [admin_flag EXCEPT ![acc_n] = FlagOf(roles, RoleAdmin, @)]
                   ELSE admin_flag
  /\ reviewer_flag' = IF flag
                      THEN [reviewer_flag EXCEPT ![acc_n] = FlagOf(roles, RoleReviewer, @)]
                      ELSE reviewer_flag
  /\ acc_n' = acc_n + 1
  /\ apc' = IF acc_n = Len(accounts_df) THEN "finish" ELSE "roles"
  /\ UNCHANGED <<listing, groups, ignore_admin, flag, accounts_df, roles,
                 num_articles, num_projects, num_collections, lookups, result,
                 log>>

\* Lines 259-274: add the columns, resolve the group names, return.
Row(i, assoc) ==
  [id |-> accounts_df[i].id, email |-> accounts_df[i].email,
   Articles |-> num_articles[i], Projects |-> num_projects[i],
   Collections |-> num_collections[i],
   Admin |-> IF flag THEN admin_flag[i] ELSE "no column",
   Reviewer |-> IF flag THEN reviewer_flag[i] ELSE "no column",
   Group |-> assoc[i]]

ReturnAccountDetails ==
  /\ apc = "finish"
  /\ LET assoc == ResolveGroups(group_assoc, groups) IN
       /\ group_assoc' = assoc
       /\ result' = [i \in DOMAIN accounts_df |-> Row(i, assoc)]
  /\ log' = log \o [i \in DOMAIN groups |-> <<"info", "group id - group name", i>>]
  /\ apc' = "returned"
  /\ UNCHANGED <<listing, groups, ignore_admin, flag, accounts_df, acc_n, roles,
                 num_articles, num_projects, num_collections, admin_flag,
                 reviewer_flag, lookups>>

AccountsIdle ==
  /\ apc = "idle"
  /\ accounts_df = << >>
  /\ acc_n = 1
  /\ roles = << >>
  /\ num_articles = << >>
  /\ num_projects = << >>
  /\ num_collections = << >>
  /\ admin_flag = << >>
  /\ reviewer_flag = << >>
  /\ group_assoc = << >>
  /\ lookups = << >>
  /\ result = << >>

\* Not in use: no account call is made.
AccountsOff ==
  /\ listing = << >>
  /\ groups = << >>
  /\ ignore_admin = FALSE
  /\ flag = TRUE
  /\ AccountsIdle


\* ================================================================
\* The listing calls of FigshareInstituteAdmin (api/figshare.py)
\* ================================================================
VARIABLES
  held,         \* number of records the service holds in the listed collection
  lpc,          \* "idle" | "returned"
  listed,       \* which listing call was made
  pageReqs,     \* the requests the call issued: [page, page_size]
  got           \* number of rows of the DataFrame the call returned

listingVars == <<held, lpc, listed, pageReqs, got>>

\* params = {'page': 1, 'page_size': 1000} (reviews: offset 0, limit 1000)
page_size == 1000
FirstPage == 1

\* The service's answer to a request for one page: the records of that page,
\* at most page_size of them.
Min(a, b) == IF a < b THEN a ELSE b
Max(a, b) == IF a > b THEN a ELSE b
Served(total, page, size) == Min(size, Max(0, total - (page - 1) * size))

PageReq(page, size) == [page |-> page, page_size |-> size]

\* The requests a listing call issues: one, for the first page.
Requests(total) == << PageReq(FirstPage, page_size) >>

RECURSIVE Rows(_, _)
Rows(total, rq) ==
  IF rq = << >> THEN 0
  ELSE Served(total, Head(rq).page, Head(rq).page_size) + Rows(total, Tail(rq))

\* One listing call: issue_request('GET', url, headers, params), then
\* pd.DataFrame of the answer.
ListingCall(name) ==
  /\ lpc = "idle"
  /\ listed' = name
  /\ pageReqs' = Requests(held)
  /\ got' = Rows(held, pageReqs')
  /\ lpc' = "returned"
  /\ UNCHANGED held

get_articles == ListingCall("articles")
get_user_articles == ListingCall("user articles")
get_user_projects == ListingCall("user projects")
get_user_collections == ListingCall("user collections")
get_account_list_request == ListingCall("accounts")
get_curation_list == ListingCall("reviews")

ListingOff ==
  /\ held = 0
  /\ lpc = "idle"
  /\ listed = "none"
  /\ pageReqs = << >>
  /\ got = 0


\* ================================================================
\* FigshareInstituteAdmin.doi_check / reserve_doi (api/figshare.py)
\* ================================================================
VARIABLES
  remoteDoi,    \* the article's doi at the service: "" when none is reserved
  dpc,          \* position in reserve_doi
  doi_string,   \* the doi that doi_check returned to reserve_doi
  calls,        \* number of reserve_doi calls started
  events,       \* what the calls did, in order: GET, PROMPT, POST
  returned      \* the values the calls returned, in order

doiVars == <<remoteDoi, dpc, doi_string, calls, events, returned>>

\* Identifiers the service may mint.
DoiIds == {"10.25422/azu.data.1", "10.25422/azu.data.2"}
NoDoi == ""

\* What the operator may type at a prompt, as sequences of characters.
Responses ==
  { <<"y", "e", "s">>, <<"Y", "e", "s">>, <<"Y", "E", "S">>, <<"y", "E", "s">>,
    <<"n", "o">>, << >>, <<"y">>, <<"y", "e", "s", " ">>, <<"Y">> }

\* str.lower() on the characters the responses are made of.
LowerChar(c) ==
  CASE c = "Y" -> "y" [] c = "E" -> "e" [] c = "S" -> "s"
    [] c = "N" -> "n" [] c = "O" -> "o" [] OTHER -> c
Lower(str) == [i \in DOMAIN str |-> LowerChar(str[i])]

\* src_input.lower() == 'yes'
AffirmativeExact(str) == str = <<"Y", "e", "s">>
Affirmative(str) == Lower(str) = <<"y", "e", "s">>

\* doi_check, lines 314-316: check is True iff article_details['doi'] is
\* truthy.
DoiReservedNever(doi) == FALSE
DoiReservedInverted(doi) == doi = NoDoi
DoiReserved(doi) == doi # NoDoi

Event(kind, ok, resp, doi) ==
  [call |-> calls, kind |-> kind, ok |-> ok, resp |-> resp, doi |-> doi]
Return(value) == [call |-> calls, value |-> value]

\* Entry of reserve_doi.
ReserveDoiEnter ==
  /\ dpc' = "check"
  /\ calls' = calls + 1
  /\ UNCHANGED <<remoteDoi, doi_string, events, returned>>

\* A direct call of reserve_doi (the first, or one after the previous call
\* returned or raised).
CallReserveDoi ==
  /\ dpc \in {"idle", "returned", "raised"}
  /\ calls < MaxCalls
  /\ ReserveDoiEnter
  /\ UNCHANGED log

\* Lines 326-333 (doi_check, 308-318): GET the article; return its doi when
\* it has one, else go on to the prompt.  The GET may fail, and raises.
DoiCheck ==
  /\ dpc = "check"
  /\ \E ok \in BOOLEAN :
       IF ~ok
       THEN /\ dpc' = "raised"
            /\ events' = Append(events, Event("GET", FALSE, << >>, NoDoi))
            /\ UNCHANGED <<doi_string, returned, log>>
       ELSE /\ doi_string' = remoteDoi
            /\ events' = Append(events, Event("GET", TRUE, << >>, remoteDoi))
            /\ IF DoiReserved(remoteDoi)
               THEN /\ log' = Append(log, <<"info", "DOI already reserved! Skipping...", 0>>)
                    /\ returned' = Append(returned, Return(remoteDoi))
                    /\ dpc' = "returned"
               ELSE /\ log' = Append(log, <<"info", "PROMPT: DOI reservation has not occurred!", 0>>)
                    /\ returned' = returned
                    /\ dpc' = "prompt"
  /\ UNCHANGED <<remoteDoi, calls>>

\* Lines 334-337, 341-343: read the operator's response; anything but an
\* affirmative one returns the doi of the check.
DoiPrompt ==
  /\ dpc = "prompt"
  /\ \E src_input \in Responses :
       /\ events' = Append(events, Event("PROMPT", TRUE, src_input, NoDoi))
       /\ IF Affirmative(src_input)
          THEN /\ log' = log \o << <<"info", "RESPONSE", 0>>,
                                   <<"info", "Reserving DOI ...", 0>> >>
               /\ returned' = returned
               /\ dpc' = "mint"
          ELSE /\ log' = log \o << <<"info", "RESPONSE", 0>>,
                                   <<"warning", "Skipping...", 0>> >>
               /\ returned' = Append(returned, Return(doi_string))
               /\ dpc' = "returned"
  /\ UNCHANGED <<remoteDoi, doi_string, calls>>

\* Lines 338-340: POST reserve_doi.  The service mints an identifier,
\* keeps it as the article's doi and answers with it; or the request fails
\* and raises.
DoiMint ==
  /\ dpc = "mint"
  /\ \/ /\ dpc' = "raised"
        /\ events' = Append(events, Event("POST", FALSE, << >>, NoDoi))
        /\ UNCHANGED <<remoteDoi, returned, log>>
     \/ \E id \in DoiIds :
          /\ remoteDoi' = id
          /\ events' = Append(events, Event("POST", TRUE, << >>, id))
          /\ log' = Append(log, <<"info", "DOI minted", 0>>)
          /\ returned' = Append(returned, Return(id))
          /\ dpc' = "returned"
  /\ UNCHANGED <<doi_string, calls>>

DoiIdle ==
  /\ dpc = "idle"
  /\ doi_string = NoDoi
  /\ calls = 0
  /\ events = << >>
  /\ returned = << >>

DoiOff == remoteDoi = NoDoi /\ DoiIdle


\* ================================================================
\* PrerequisiteWorkflow and workflow (main.py)
\* ================================================================
VARIABLES
  wpc,          \* position in workflow() (or in a caller of PrerequisiteWorkflow)
  new_set,      \* PrerequisiteWorkflow.new_set
  located,      \* the stage roots under which the deposit's folder exists
  steps,        \* the steps of workflow(), as they are called and as they end
  exc,          \* the exception that ended the invocation, "none" if none
  invocation    \* number of workflow() invocations started for the article

workflowVars == <<wpc, new_set, located, steps, exc, invocation>>

\* The curation stages, in order; the workflow creates deposits in the first.
Stages == {"ToDo", "UnderReview", "Archived"}
StageSeq == <<"ToDo", "UnderReview", "Archived">>
todo_folder == "ToDo"

\* MoveClass.get_source_stage(folderName): the stage the folder is found
\* in; "not found" stands for FileNotFoundError, "ambiguous" for the
\* error reported when it is found under more than one stage root.
get_source_stage_by_precedence(found) ==
  IF found = {} THEN "not found"
  ELSE StageSeq[CHOOSE i \in DOMAIN StageSeq :
                  /\ StageSeq[i] \in found
                  /\ \A j \in 1..(i - 1) : StageSeq[j] \notin found]
get_source_stage(found) ==
  IF found = {} THEN "not found"
  ELSE IF Cardinality(found) = 1 THEN CHOOSE st \in found : TRUE
  ELSE "ambiguous"

\* The exception the outcome of a lookup or move stands for.
ErrorOf(outcome) ==
  CASE outcome = "not found" -> "FileNotFoundError"
    [] outcome = "ambiguous" -> "AmbiguousStateError"
    [] outcome = "invalid transition" -> "InvalidTransitionError"
    [] OTHER -> "none"

\* except FileNotFoundError (line 71): the only outcome of the lookup that
\* makes the deposit a new set.
IsFileNotFoundError(outcome) == outcome = "not found"

\* if pw.new_set (line 139): the prerequisite steps run for a new set only.
PerformsPrerequisiteAlways(ns) == TRUE
PerformsPrerequisite(ns) == ns

Step(name, ev) == [step |-> name, ev |-> ev]

\* PrerequisiteWorkflow.__init__, lines 66-74, and make_folders, 82-94:
\* look the folder up; a folder that is not found makes the deposit a new
\* set, and its data folders are created (if they do not exist) with mode
\* 0o777 under the ToDo root.  Any other error of the lookup leaves the
\* constructor.
PrerequisiteWorkflowInit ==
  LET source_stage == get_source_stage(located) IN
    IF IsFileNotFoundError(source_stage)
    THEN /\ new_set' = TRUE
         /\ located' = located \cup {todo_folder}
         /\ dirMode' = IF todo_folder \in located THEN dirMode ELSE "rwx"
         /\ log' = IF todo_folder \in located THEN log
                   ELSE Append(log, <<"info", "Creating folder", 0>>)
         /\ exc' = "none"
    ELSE IF source_stage \in Stages
    THEN /\ new_set' = FALSE
         /\ log' = Append(log, <<"warning", "Curation folder exists. Will not retrieve!", 0>>)
         /\ exc' = "none"
         /\ UNCHANGED <<located, dirMode>>
    ELSE /\ exc' = ErrorOf(source_stage)
         /\ UNCHANGED <<invocation, new_set, located, dirMode, log>>

\* Lines 135-139: construct the PrerequisiteWorkflow; the steps that follow
\* are inside `if pw.new_set`, so a deposit that is found ends the workflow.
WfConstruct ==
  /\ wpc = "start"
  /\ PrerequisiteWorkflowInit
  /\ steps' = <<Step("check", "call"),
                Step("check", IF exc' = "none" THEN "return" ELSE "raise")>>
  /\ wpc' = IF exc' # "none" THEN "error"
            ELSE IF PerformsPrerequisite(new_set') THEN "reserve"
            ELSE "done"
  /\ UNCHANGED <<url_open, authResp, anonResp, disk, fpc, n, reqs, skipped,
                 lockCount, run, after1>>
  /\ UNCHANGED <<doiVars, invocation>>

\* Line 141 (PrerequisiteWorkflow.reserve_doi, 76-80).
WfReserveDoi ==
  /\ wpc = "reserve"
  /\ ReserveDoiEnter
  /\ wpc' = "reserving"
  /\ steps' = Append(steps, Step("reserve", "call"))
  /\ UNCHANGED <<invocation, new_set, located, exc, fetchVars>>

\* Line 144 (download_data, 96-101), once reserve_doi has returned.
WfDownloadData ==
  /\ wpc = "reserving" /\ dpc = "returned"
  /\ IF new_set
     THEN /\ DownloadFilesEnter
          /\ wpc' = "downloading"
          /\ steps' = steps \o <<Step("reserve", "return"), Step("fetch", "call")>>
          /\ UNCHANGED <<url_open, authResp, anonResp, disk, after1>>
     ELSE /\ wpc' = "report"
          /\ steps' = Append(steps, Step("reserve", "return"))
          /\ UNCHANGED fetchVars
  /\ UNCHANGED <<invocation, new_set, located, exc, doiVars>>

\* download_files has returned: the workflow is at line 147.
WfDownloadReturn ==
  /\ wpc = "downloading" /\ fpc = "done"
  /\ wpc' = "report"
  /\ steps' = Append(steps, Step("fetch", "return"))
  /\ UNCHANGED <<invocation, new_set, located, exc, fetchVars, doiVars>>

\* An exception raised in reserve_doi or download_files is caught nowhere
\* in workflow(): it ends the workflow.
WfPropagate ==
  /\ \/ /\ wpc = "reserving" /\ dpc = "raised"
        /\ steps' = Append(steps, Step("reserve", "raise"))
        /\ exc' = "reserve_doi raised"
     \/ /\ wpc = "downloading" /\ fpc = "raised"
        /\ steps' = Append(steps, Step("fetch", "raise"))
        /\ exc' = "download_files raised"
  /\ wpc' = "error"
  /\ UNCHANGED <<invocation, new_set, located, fetchVars, doiVars>>

\* A step of workflow() that calls a collaborator: it returns, or it raises
\* and ends the workflow.
CollaboratorStep(name, at, next, error) ==
  /\ wpc = at
  /\ \E ok \in BOOLEAN :
       IF ok
       THEN /\ wpc' = next
            /\ steps' = steps \o <<Step(name, "call"), Step(name, "return")>>
            /\ exc' = exc
       ELSE /\ wpc' = "error"
            /\ steps' = steps \o <<Step(name, "call"), Step(name, "raise")>>
            /\ exc' = error
  /\ UNCHANGED <<invocation, new_set, located, fetchVars, doiVars>>

\* Line 147 (download_report, 103-106): the curation review report.
WfDownloadReport ==
  CollaboratorStep("report", "report", "form", "review_report raised")

\* Lines 150-151: the Qualtrics deposit agreement form.
WfDepositAgreement ==
  CollaboratorStep("form", "form", "readme", "retrieve_deposit_agreement raised")

\* Parameters of ReadmeClass.__init__ besides self (readme/__init__.py:84)
\* and the keyword arguments of the call at main.py:154.
ReadmeInitParams == {"dn"}
ReadmeCallKeywords == {"log", "config_dict"}

\* A call binds its keyword arguments to parameters of those names; a
\* keyword no parameter has makes the call raise TypeError.
AcceptsKeywords(params, keywords) == keywords \subseteq params

\* Line 154: rc = ReadmeClass(pw.dn, log=log, config_dict=config_dict).
WfReadme ==
  /\ wpc = "readme"
  /\ IF AcceptsKeywords(ReadmeInitParams, ReadmeCallKeywords)
     THEN /\ wpc' = "readme main"
          /\ steps' = Append(steps, Step("readme", "call"))
          /\ exc' = exc
     ELSE /\ wpc' = "error"
          /\ steps' = steps \o <<Step("readme", "call"), Step("readme", "raise")>>
          /\ exc' = "TypeError"
  /\ UNCHANGED <<invocation, new_set, located, fetchVars, doiVars>>

\* MoveClass.move_to_next(folderName): the stage the folder is moved to,
\* the one after its current stage; "invalid transition" when it is at the
\* last stage, and the lookup's error when it is not found or ambiguous.
StageNo(st) == CHOOSE i \in DOMAIN StageSeq : StageSeq[i] = st
LastStage == StageSeq[Len(StageSeq)]

move_to_next_wrapping(found) ==
  LET source_stage == get_source_stage(found) IN
    IF source_stage \notin Stages THEN source_stage
    ELSE StageSeq[(StageNo(source_stage) % Len(StageSeq)) + 1]
move_to_next(found) ==
  LET source_stage == get_source_stage(found) IN
    IF source_stage \notin Stages THEN source_stage
    ELSE IF source_stage = LastStage THEN "invalid transition"
    ELSE StageSeq[StageNo(source_stage) + 1]

\* A caller that uses PrerequisiteWorkflow directly: it constructs the
\* object, may call reserve_doi and download_data once each, and then calls
\* move_to_next, any number of times.
PwConstruct ==
  /\ wpc = "start"
  /\ PrerequisiteWorkflowInit
  /\ steps' = <<Step("check", "call"),
                Step("check", IF exc' = "none" THEN "return" ELSE "raise")>>
  /\ wpc' = IF exc' # "none" THEN "error" ELSE "ready"
  /\ UNCHANGED <<url_open, authResp, anonResp, disk, fpc, n, reqs, skipped,
                 lockCount, run, after1>>
  /\ UNCHANGED <<doiVars, invocation>>

\* PrerequisiteWorkflow.reserve_doi, lines 76-80: no test of new_set.
PwReserveDoi ==
  /\ wpc = "ready" /\ calls = 0
  /\ ReserveDoiEnter
  /\ wpc' = "reserving"
  /\ steps' = Append(steps, Step("reserve", "call"))
  /\ UNCHANGED <<invocation, new_set, located, exc, fetchVars>>

PwReserveReturn ==
  /\ wpc = "reserving" /\ dpc = "returned"
  /\ wpc' = "ready"
  /\ steps' = Append(steps, Step("reserve", "return"))
  /\ UNCHANGED <<invocation, new_set, located, exc, fetchVars, doiVars>>

\* PrerequisiteWorkflow.download_data, lines 96-101: for a new set only.
PwDownloadData ==
  /\ wpc = "ready" /\ run = 0
  /\ new_set
  /\ DownloadFilesEnter
  /\ wpc' = "downloading"
  /\ steps' = Append(steps, Step("fetch", "call"))
  /\ UNCHANGED <<url_open, authResp, anonResp, disk, after1>>
  /\ UNCHANGED <<invocation, new_set, located, exc, doiVars>>

PwDownloadReturn ==
  /\ wpc = "downloading" /\ fpc = "done"
  /\ wpc' = "ready"
  /\ steps' = Append(steps, Step("fetch", "return"))
  /\ UNCHANGED <<invocation, new_set, located, exc, fetchVars, doiVars>>

\* PrerequisiteWorkflow.move_to_next, lines 108-109: the move, or its error,
\* which the method passes on to its caller.
PwMoveToNext ==
  /\ wpc \in {"ready", "moved"}
  /\ LET target == move_to_next(located) IN
       IF target \in Stages
       THEN /\ located' = {target}
            /\ wpc' = "moved"
            /\ exc' = exc
            /\ steps' = steps \o <<Step("advance", "call"), Step("advance", "return")>>
       ELSE /\ located' = located
            /\ wpc' = "error"
            /\ exc' = ErrorOf(target)
            /\ steps' = steps \o <<Step("advance", "call"), Step("advance", "raise")>>
  /\ UNCHANGED <<invocation, new_set, fetchVars, doiVars>>

\* workflow() is invoked again for the same article after the previous
\* invocation has ended: a new process, which finds the filesystem, the
\* service and the log as the previous one left them.
WfRunAgain ==
  /\ wpc \in {"done", "error"}
  /\ invocation < MaxInvocations
  /\ invocation' = invocation + 1
  /\ wpc' = "start" /\ new_set' = FALSE /\ steps' = << >> /\ exc' = "none"
  /\ fpc' = "idle" /\ n' = 1 /\ reqs' = << >> /\ skipped' = {}
  /\ lockCount' = 0 /\ run' = 0 /\ after1' = disk
  /\ dpc' = "idle" /\ doi_string' = NoDoi /\ calls' = 0
  /\ events' = << >> /\ returned' = << >>
  /\ UNCHANGED <<located, url_open, authResp, anonResp, disk, dirMode, log,
                 remoteDoi>>

WorkflowOff ==
  /\ wpc = "off"
  /\ new_set = FALSE
  /\ located = {}
  /\ steps = << >>
  /\ exc = "none"
  /\ invocation = 0

\* ================================================================
\* ReadmeClass (inspection/readme/__init__.py)
\* ================================================================
VARIABLES
  rpc,              \* the handler: "off", "ready" (constructed) or "raised"
  readme_root,      \* the stage root data_path and readme_file_path are under
  template_source,  \* ReadmeClass.template_source
  user_template,    \* README_template.txt exists in the deposit's DATA folder
  readme_file,      \* README.txt in the deposit's DATA folder
  readme_mode,      \* the permissions of that README.txt
  readme_calls,     \* calls of main() and construct() made so far
  readme_events     \* the checks, prompts and writes of the handler

readmeVars == <<rpc, readme_root, template_source, user_template,
                readme_file, readme_mode, readme_calls, readme_events>>

\* Calls of main() or construct() made on one handler.
MaxReadmeCalls == 2

\* Lines 22-26: the module's root_directory is the configured path joined
\* with the under-review folder.
underreview_folder == "UnderReview"
root_directory == underreview_folder

\* The deposit's DATA folder is under the root of the stage the deposit
\* is in, and so are the files in it.
DataFolderUnder(root) == located = {root}

\* exists(self.readme_file_path), lines 185 and 227; exists() of the user
\* template, line 98.
ReadmeExists(root) == DataFolderUnder(root) /\ readme_file # "absent"
UserTemplateExists(root) == DataFolderUnder(root) /\ user_template

\* src_input == 'Yes' (line 101) and user_response == "Yes" (line 239).
IsYes(str) == str = <<"Y", "e", "s">>

ReadmeEvent(op, found, resp, wrote) ==
  [op |-> op, root |-> readme_root, at |-> located, found |-> found,
   resp |-> resp, wrote |-> wrote]

NoResponse == <<"-">>

\* ReadmeClass.__init__, lines 84-111: the paths are built from the
\* module's root; a user template found in the DATA folder is used only on
\* the response 'Yes'; metadata without the fields the template needs
\* makes retrieve_article_metadata raise.
ReadmeInit ==
  /\ rpc = "off"
  /\ wpc \in {"ready", "moved"}
  /\ readme_root' = root_directory
  /\ \/ /\ UserTemplateExists(root_directory)
        /\ \E src_input \in Responses :
             template_source' = IF IsYes(src_input) THEN "user" ELSE "default"
     \/ /\ ~UserTemplateExists(root_directory)
        /\ template_source' = "default"
  /\ \E complete \in BOOLEAN :
       rpc' = IF complete THEN "ready" ELSE "raised"
  /\ UNCHANGED <<user_template, readme_file, readme_mode, readme_calls,
                 readme_events>>

\* ReadmeClass.construct, lines 185-199, on the state of README.txt: the
\* template is rendered into the file only when exists() is false; open()
\* raises FileNotFoundError when the DATA folder is not under the root.
ConstructOverwriting(file, root) ==
  IF DataFolderUnder(root) THEN "rendered" ELSE file
construct(file, root) ==
  IF ~ReadmeExists(root) /\ DataFolderUnder(root) THEN "rendered" ELSE file

ConstructRaises(root) == ~DataFolderUnder(root)

\* Line 199: permissions.curation(self.readme_file_path) follows in both
\* branches, whether or not the file was written.
ConstructMode(mode, root) ==
  IF ConstructRaises(root) THEN mode ELSE CurationDefaultMode

\* A direct call of construct().
ReadmeConstruct ==
  /\ rpc = "ready"
  /\ readme_calls < MaxReadmeCalls
  /\ readme_calls' = readme_calls + 1
  /\ readme_file' = construct(readme_file, readme_root)
  /\ readme_mode' = ConstructMode(readme_mode, readme_root)
  /\ rpc' = IF ConstructRaises(readme_root) THEN "raised" ELSE "ready"
  /\ readme_events' =
       Append(readme_events,
              ReadmeEvent("construct", ReadmeExists(readme_root), NoResponse,
                          readme_file' # readme_file))
  /\ UNCHANGED <<readme_root, template_source, user_template>>

\* ReadmeClass.main, lines 219-243: a README.txt that exists is reported;
\* otherwise the operator is asked, and construct() is called on the
\* response "Yes" only.
ReadmeMain ==
  /\ rpc = "ready"
  /\ readme_calls < MaxReadmeCalls
  /\ readme_calls' = readme_calls + 1
  /\ IF ReadmeExists(readme_root)
     THEN /\ readme_events' =
               Append(readme_events,
                      ReadmeEvent("main", TRUE, NoResponse, FALSE))
          /\ UNCHANGED <<rpc, readme_file, readme_mode>>
     ELSE \E user_response \in Responses :
            IF IsYes(user_response)
            THEN /\ readme_file' = construct(readme_file, readme_root)
                 /\ readme_mode' = ConstructMode(readme_mode, readme_root)
                 /\ rpc' = IF ConstructRaises(readme_root) THEN "raised"
                           ELSE "ready"
                 /\ readme_events' =
                      Append(readme_events,
                             ReadmeEvent("main", FALSE, user_response,
                                         readme_file' # readme_file))
            ELSE /\ readme_events' =
                      Append(readme_events,
                             ReadmeEvent("main", FALSE, user_response, FALSE))
                 /\ UNCHANGED <<rpc, readme_file, readme_mode>>
  /\ UNCHANGED <<readme_root, template_source, user_template>>

ReadmeOff ==
  /\ rpc = "off"
  /\ readme_root = "none"
  /\ template_source = "none"
  /\ user_template = FALSE
  /\ readme_file = "absent"
  /\ readme_mode = "none"
  /\ readme_calls = 0
  /\ readme_events = << >>

\* ------------------------------------------------------------ SpecFetch
FetchIdle ==
  /\ dirMode = "none"
  /\ fpc = "idle"
  /\ n = 1
  /\ reqs = << >>
  /\ skipped = {}
  /\ lockCount = 0
  /\ run = 0
  /\ log = << >>

\* The service's behaviour per download URL.  The answer to a request
\* without credentials is only ever consulted after an HTTPError of the
\* request with the token, so it is left at "ok" otherwise.
Services ==
  {s \in [auth : Resp, anon : Resp] : IsHTTPError(s.auth) \/ s.anon = "ok"}

InitFetch ==
  /\ ReadmeOff
  /\ url_open \in BOOLEAN
  /\ \E svc \in [Files -> Services] :
       /\ authResp = [f \in Files |-> svc[f].auth]
       /\ anonResp = [f \in Files |-> svc[f].anon]
  /\ disk \in [Files -> {"absent", "full"}]
  /\ after1 = disk
  /\ FetchIdle
  /\ AccountsOff
  /\ ListingOff
  /\ DoiOff
  /\ WorkflowOff

NextFetch ==
  \/ CallDownloadFiles /\ UNCHANGED <<readmeVars, accountVars, listingVars, doiVars, workflowVars>>
  \/ SkipExisting /\ UNCHANGED <<readmeVars, accountVars, listingVars, doiVars, workflowVars>>
  \/ AuthAttempt /\ UNCHANGED <<readmeVars, accountVars, listingVars, doiVars, workflowVars>>
  \/ AnonAttempt /\ UNCHANGED <<readmeVars, accountVars, listingVars, doiVars, workflowVars>>
  \/ LockDirectory /\ UNCHANGED <<readmeVars, accountVars, listingVars, doiVars, workflowVars>>

vars == <<fetchVars, accountVars, listingVars, doiVars, workflowVars,
         readmeVars>>

SpecFetch == InitFetch /\ [][NextFetch]_vars

\* --------------------------------------------------------- SpecAccounts
\* Not in use: no download_files call is made.
FetchOff ==
  /\ url_open = FALSE
  /\ authResp = [f \in Files |-> "ok"]
  /\ anonResp = [f \in Files |-> "ok"]
  /\ disk = [f \in Files |-> "absent"]
  /\ after1 = disk
  /\ FetchIdle

\* The institution's groups, as the service lists them.
GroupListing ==
  << [id |-> <<"1", "7">>, name |-> <<"L", "i", "b">>] >>

\* Group listings in which group 17 is listed: alone; after a group whose
\* id, 7, is a digit-substring of 17; with a name that contains a digit,
\* before the group of that id.
GroupListings ==
  { GroupListing,
    << [id |-> <<"7">>, name |-> <<"L", "a", "w">>],
       [id |-> <<"1", "7">>, name |-> <<"L", "i", "b">>] >>,
    << [id |-> <<"1", "7">>, name |-> <<"A", "3">>],
       [id |-> <<"3">>, name |-> <<"L", "a", "w">>] >> }

\* Base listings of 0..NAccounts accounts.
Listings ==
  UNION { {[i \in 1..k |-> [id |-> AccountId(i), email |-> em[i]]] :
             em \in [1..k -> EmailClasses]} : k \in 0..NAccounts }

InitAccounts ==
  /\ ReadmeOff
  /\ FetchOff
  /\ listing \in Listings
  /\ groups = GroupListing
  /\ ignore_admin \in BOOLEAN
  /\ flag \in BOOLEAN
  /\ AccountsIdle
  /\ ListingOff
  /\ DoiOff
  /\ WorkflowOff

NextAccounts ==
  \/ CallGetAccountDetails /\ UNCHANGED <<readmeVars, fetchOnly, listingVars, doiVars, workflowVars>>
  \/ RolesLookup /\ UNCHANGED <<readmeVars, fetchOnly, listingVars, doiVars, workflowVars>>
  \/ ArticlesLookup /\ UNCHANGED <<readmeVars, fetchOnly, listingVars, doiVars, workflowVars>>
  \/ ProjectsLookup /\ UNCHANGED <<readmeVars, fetchOnly, listingVars, doiVars, workflowVars>>
  \/ CollectionsLookup /\ UNCHANGED <<readmeVars, fetchOnly, listingVars, doiVars, workflowVars>>
  \/ ApplyRoles /\ UNCHANGED <<readmeVars, fetchOnly, listingVars, doiVars, workflowVars>>
  \/ ReturnAccountDetails /\ UNCHANGED <<readmeVars, fetchOnly, listingVars, doiVars, workflowVars>>

SpecAccounts == InitAccounts /\ [][NextAccounts]_vars

\* ----------------------------------------------------------- SpecGroups
\* get_account_details on listings of ordinary accounts, without the
\* filter, against each of the group listings.
InitGroups ==
  /\ ReadmeOff
  /\ FetchOff
  /\ listing \in {l \in Listings : \A i \in DOMAIN l : l[i].email = "user"}
  /\ groups \in GroupListings
  /\ ignore_admin = FALSE
  /\ flag = TRUE
  /\ AccountsIdle
  /\ ListingOff
  /\ DoiOff
  /\ WorkflowOff

SpecGroups == InitGroups /\ [][NextAccounts]_vars

\* ---------------------------------------------------------- SpecListing
InitListing ==
  /\ ReadmeOff
  /\ FetchOff
  /\ AccountsOff
  /\ held \in 0..MaxHeld
  /\ lpc = "idle"
  /\ listed = "none"
  /\ pageReqs = << >>
  /\ got = 0
  /\ DoiOff
  /\ WorkflowOff

NextListing ==
  \/ get_articles /\ UNCHANGED <<readmeVars, fetchVars, accountVars, doiVars, workflowVars>>
  \/ get_user_articles /\ UNCHANGED <<readmeVars, fetchVars, accountVars, doiVars, workflowVars>>
  \/ get_user_projects /\ UNCHANGED <<readmeVars, fetchVars, accountVars, doiVars, workflowVars>>
  \/ get_user_collections /\ UNCHANGED <<readmeVars, fetchVars, accountVars, doiVars, workflowVars>>
  \/ get_account_list_request /\ UNCHANGED <<readmeVars, fetchVars, accountVars, doiVars, workflowVars>>
  \/ get_curation_list /\ UNCHANGED <<readmeVars, fetchVars, accountVars, doiVars, workflowVars>>

SpecListing == InitListing /\ [][NextListing]_vars

\* -------------------------------------------------------------- SpecDoi
InitDoi ==
  /\ ReadmeOff
  /\ FetchOff
  /\ AccountsOff
  /\ ListingOff
  /\ remoteDoi \in {NoDoi} \cup DoiIds
  /\ DoiIdle
  /\ WorkflowOff

NextDoi ==
  \/ CallReserveDoi /\ UNCHANGED <<readmeVars, fetchOnly, accountVars, listingVars, workflowVars>>
  \/ DoiCheck /\ UNCHANGED <<readmeVars, fetchOnly, accountVars, listingVars, workflowVars>>
  \/ DoiPrompt /\ UNCHANGED <<readmeVars, fetchOnly, accountVars, listingVars, workflowVars>>
  \/ DoiMint /\ UNCHANGED <<readmeVars, fetchOnly, accountVars, listingVars, workflowVars>>

SpecDoi == InitDoi /\ [][NextDoi]_vars

\* --------------------------------------------------------- SpecWorkflow
\* A deposit whose folder exists nowhere has no file on disk; for a deposit
\* that is found, no request is ever made, so the service's behaviour is
\* left at "ok".
InitWorkflow ==
  /\ ReadmeOff
  /\ AccountsOff
  /\ ListingOff
  /\ located \in SUBSET Stages
  /\ url_open \in BOOLEAN
  /\ IF located = {}
     THEN /\ \E svc \in [Files -> Services] :
               /\ authResp = [f \in Files |-> svc[f].auth]
               /\ anonResp = [f \in Files |-> svc[f].anon]
          /\ disk = [f \in Files |-> "absent"]
     ELSE /\ authResp = [f \in Files |-> "ok"]
          /\ anonResp = [f \in Files |-> "ok"]
          /\ disk \in [Files -> {"absent", "full"}]
  /\ after1 = disk
  /\ FetchIdle
  /\ remoteDoi \in {NoDoi} \cup DoiIds
  /\ DoiIdle
  /\ wpc = "start"
  /\ new_set = FALSE
  /\ steps = << >>
  /\ exc = "none"
  /\ invocation = 1

\* download_files runs here in a data folder that make_folders has just
\* created, so no file of the list exists when the loop reaches it
\* (WorkflowFolderIsFresh): the branch of lines 124-125 is not taken.
NextWorkflow ==
  \/ WfConstruct /\ UNCHANGED <<readmeVars, accountVars, listingVars>>
  \/ WfReserveDoi /\ UNCHANGED <<readmeVars, accountVars, listingVars>>
  \/ DoiCheck /\ UNCHANGED <<readmeVars, fetchOnly, accountVars, listingVars, workflowVars>>
  \/ DoiPrompt /\ UNCHANGED <<readmeVars, fetchOnly, accountVars, listingVars, workflowVars>>
  \/ DoiMint /\ UNCHANGED <<readmeVars, fetchOnly, accountVars, listingVars, workflowVars>>
  \/ WfDownloadData /\ UNCHANGED <<readmeVars, accountVars, listingVars>>
  \/ AuthAttempt /\ UNCHANGED <<readmeVars, accountVars, listingVars, doiVars, workflowVars>>
  \/ AnonAttempt /\ UNCHANGED <<readmeVars, accountVars, listingVars, doiVars, workflowVars>>
  \/ LockDirectory /\ UNCHANGED <<readmeVars, accountVars, listingVars, doiVars, workflowVars>>
  \/ WfDownloadReturn /\ UNCHANGED <<readmeVars, accountVars, listingVars>>
  \/ WfPropagate /\ UNCHANGED <<readmeVars, accountVars, listingVars>>
  \/ WfDownloadReport /\ UNCHANGED <<readmeVars, accountVars, listingVars>>
  \/ WfDepositAgreement /\ UNCHANGED <<readmeVars, accountVars, listingVars>>
  \/ WfReadme /\ UNCHANGED <<readmeVars, accountVars, listingVars>>

SpecWorkflow == InitWorkflow /\ [][NextWorkflow]_vars

\* ----------------------------------------------------------- SpecResume
\* workflow() invoked repeatedly for the same article.
NextResume ==
  \/ NextWorkflow
  \/ WfRunAgain /\ UNCHANGED <<readmeVars, accountVars, listingVars>>

SpecResume == InitWorkflow /\ [][NextResume]_vars

\* ------------------------------------------------------------- SpecMove
\* The folder of the deposit is under any set of stage roots; a deposit
\* that has a folder may have files from its intake on disk.  The file
\* service serves every file.
InitMove ==
  /\ ReadmeOff
  /\ AccountsOff
  /\ ListingOff
  /\ located \in SUBSET Stages
  /\ url_open = FALSE
  /\ authResp = [f \in Files |-> "ok"]
  /\ anonResp = [f \in Files |-> "ok"]
  /\ IF located = {}
     THEN disk = [f \in Files |-> "absent"]
     ELSE disk \in [Files -> {"absent", "full"}]
  /\ after1 = disk
  /\ FetchIdle
  /\ remoteDoi \in {NoDoi} \cup DoiIds
  /\ DoiIdle
  /\ wpc = "start"
  /\ new_set = FALSE
  /\ steps = << >>
  /\ exc = "none"
  /\ invocation = 1

NextMove ==
  \/ PwConstruct /\ UNCHANGED <<readmeVars, accountVars, listingVars>>
  \/ PwReserveDoi /\ UNCHANGED <<readmeVars, accountVars, listingVars>>
  \/ DoiCheck /\ UNCHANGED <<readmeVars, fetchOnly, accountVars, listingVars, workflowVars>>
  \/ DoiPrompt /\ UNCHANGED <<readmeVars, fetchOnly, accountVars, listingVars, workflowVars>>
  \/ DoiMint /\ UNCHANGED <<readmeVars, fetchOnly, accountVars, listingVars, workflowVars>>
  \/ PwReserveReturn /\ UNCHANGED <<readmeVars, accountVars, listingVars>>
  \/ WfPropagate /\ UNCHANGED <<readmeVars, accountVars, listingVars>>
  \/ PwDownloadData /\ UNCHANGED <<readmeVars, accountVars, listingVars>>
  \/ AuthAttempt /\ UNCHANGED <<readmeVars, accountVars, listingVars, doiVars, workflowVars>>
  \/ LockDirectory /\ UNCHANGED <<readmeVars, accountVars, listingVars, doiVars, workflowVars>>
  \/ PwDownloadReturn /\ UNCHANGED <<readmeVars, accountVars, listingVars>>
  \/ PwMoveToNext /\ UNCHANGED <<readmeVars, accountVars, listingVars>>

SpecMove == InitMove /\ [][NextMove]_vars

\* ----------------------------------------------------------- SpecReadme
\* PrerequisiteWorkflow and ReadmeClass used directly: the constructor of
\* the workflow object, ReadmeClass(pw.dn), main() and construct(), and
\* move_to_next.  The folder of the deposit is under no stage root or under
\* one; a folder that exists may hold a README.txt and a user template.
InitReadme ==
  /\ AccountsOff
  /\ ListingOff
  /\ located \in {{}} \cup {{st} : st \in Stages}
  /\ url_open = FALSE
  /\ authResp = [f \in Files |-> "ok"]
  /\ anonResp = [f \in Files |-> "ok"]
  /\ disk = [f \in Files |-> "absent"]
  /\ after1 = disk
  /\ FetchIdle
  /\ DoiOff
  /\ wpc = "start"
  /\ new_set = FALSE
  /\ steps = << >>
  /\ exc = "none"
  /\ invocation = 1
  /\ rpc = "off"
  /\ readme_root = "none"
  /\ template_source = "none"
  /\ IF located = {}
     THEN user_template = FALSE /\ readme_file = "absent"
     ELSE user_template \in BOOLEAN /\ readme_file \in {"absent", "original"}
  /\ readme_mode = IF readme_file = "absent" THEN "none" ELSE "as found"
  /\ readme_calls = 0
  /\ readme_events = << >>

ReadmeFrame ==
  UNCHANGED <<fetchVars, accountVars, listingVars, doiVars, workflowVars>>

NextReadme ==
  \/ PwConstruct /\ UNCHANGED <<readmeVars, accountVars, listingVars>>
  \/ PwMoveToNext /\ UNCHANGED <<readmeVars, accountVars, listingVars>>
  \/ ReadmeInit /\ ReadmeFrame
  \/ ReadmeMain /\ ReadmeFrame
  \/ ReadmeConstruct /\ ReadmeFrame

SpecReadme == InitReadme /\ [][NextReadme]_vars

WorkflowFolderIsFresh ==
  (wpc = "downloading" /\ fpc = "loop" /\ n <= NFiles) => ~Exists(n)

\* ------------------------------------------- properties of download_files
Present(d) == {f \in Files : d[f] # "absent"}
ReqsFor(f) == SelectSeq(reqs, LAMBDA q : q.file = f)
Requested(f) == \E i \in DOMAIN reqs : reqs[i].file = f
Ended == fpc \in {"done", "raised"}
Logged(level, text, f) ==
  \E j \in DOMAIN log : log[j] = <<level, text, f>>
WarnedAbout(f) ==
  \E j \in DOMAIN log : log[j][1] = "warning" /\ log[j][3] = f

\* C1: a file that exists when download_files reaches it is not requested;
\* the second run requests no file that was present after the first run,
\* and when the second run has ended the directory holds the same set of
\* files as when the first run ended.
C1_IdempotentFetch ==
  /\ \A f \in skipped : ~Requested(f)
  /\ run >= 2 => \A f \in Present(after1) : ~Requested(f)
  /\ (run >= 2 /\ Ended) => Present(disk) = Present(after1)

\* C2: a file whose URL answers the request with the token by an
\* authorization error and the request without it by the body gets the
\* request with the token first, then exactly one without, is written whole
\* at its local path, and the loop goes on past it.
C2_FallbackOnAuthFailure ==
  \A f \in Files :
    (authResp[f] = "auth" /\ anonResp[f] = "ok") =>
      /\ ~(fpc = "raised" /\ n = f)
      /\ (n > f /\ f \notin skipped) =>
           /\ ReqsFor(f) = <<Req(f, "token", "auth"), Req(f, "anon", "ok")>>
           /\ disk[f] = "full"

\* C2 witness: such a file was fetched by the fallback and the next file of
\* the list was then requested.
C2_Witness ==
  \E f \in Files :
    /\ authResp[f] = "auth" /\ anonResp[f] = "ok"
    /\ ReqsFor(f) = <<Req(f, "token", "auth"), Req(f, "anon", "ok")>>
    /\ disk[f] = "full"
    /\ f < NFiles /\ Requested(f + 1)

C4_NonAuthFailureIsolated ==
  \A i \in DOMAIN reqs :
    reqs[i].resp \in {"net", "short"} =>
      /\ fpc # "raised"
      /\ WarnedAbout(reqs[i].file)
      /\ Ended => \A f \in Files : f \in skipped \/ Requested(f)

\* C5: when the request with the token and the retry without it both fail
\* for a file, a warning naming the file is logged, the call goes on to the
\* next file, and (once the call has ended) every file of the list was
\* skipped as existing or requested.
BothFailed(f) ==
  /\ Len(ReqsFor(f)) = 2
  /\ \A i \in 1..2 : ReqsFor(f)[i].resp # "ok"

C5_BothFailedContinues ==
  \A f \in Files :
    BothFailed(f) =>
      /\ Logged("warning", "Failed to retrieve", f)
      /\ ~(fpc = "raised" /\ n = f)
      /\ Ended => \A g \in Files : g \in skipped \/ Requested(g)

\* C15: while download_files is at work on the list the data directory has
\* full access and has not been locked; when the call has ended, however
\* the attempts went, every file of the list was skipped or requested, and
\* the directory was locked to read and execute only, exactly once.
C15_LockedOnceAfterAllFiles ==
  /\ fpc \in {"loop", "retry"} => (dirMode = CurationDefaultMode /\ lockCount = 0)
  /\ Ended =>
       /\ \A f \in Files : f \in skipped \/ Requested(f)
       /\ lockCount = 1
       /\ dirMode = LockedMode

\* C16: a file that a broken retrieval left truncated at its local path is
\* never skipped as already present by a later download_files call: every
\* file a call skips is a whole file.
C16_TruncatedNeverCountsAsFetched ==
  \A f \in skipped : disk[f] = "full"

\* C21: in one download_files call every file gets at most two retrieval
\* requests: the first carries the token, the second, if there is one,
\* carries no credential and follows the first at once; no file is
\* requested again later in the call.
C21_SingleExtraAttempt ==
  \A f \in Files :
    LET rs == ReqsFor(f) IN
      /\ Len(rs) <= 2
      /\ Len(rs) >= 1 => rs[1].cred = "token"
      /\ Len(rs) = 2 => rs[2].cred = "anon"
      /\ \A i, j \in DOMAIN reqs :
           (i < j /\ reqs[i].file = f /\ reqs[j].file = f) => j = i + 1

\* C21 witness: both attempts for a file failed with HTTP errors, the call
\* left it at two requests and went on to request the next file.
C21_Witness ==
  \E f \in Files :
    /\ ReqsFor(f) = <<Req(f, "token", "auth"), Req(f, "anon", "http")>>
    /\ f < NFiles /\ Requested(f + 1)

\* -------------------------------------- properties of get_account_details
Num(res) ==
  CASE res = "articles" -> num_articles
    [] res = "projects" -> num_projects
    [] res = "collections" -> num_collections

FailedRoleLookups ==
  {i \in DOMAIN lookups : lookups[i].kind = "roles" /\ ~lookups[i].answer.ok}

RowOf(id) == CHOOSE j \in DOMAIN result : result[j].id = id

\* C6: when the role lookup fails for exactly one account of the table,
\* the call does not raise; it returns one record per account, the failing
\* account's three counts zero, every other account's counts as served.
C6_RoleFailureIsolated ==
  Cardinality(FailedRoleLookups) = 1 =>
    /\ apc # "raised"
    /\ apc = "returned" =>
         /\ Len(result) = Len(accounts_df)
         /\ \A i \in FailedRoleLookups :
              LET r == result[RowOf(lookups[i].id)] IN
                r.Articles = 0 /\ r.Projects = 0 /\ r.Collections = 0

\* C7: a count lookup that fails leaves that count of the account's row at
\* zero, is logged as a warning naming the account and the resource type,
\* and does not end the call; a count lookup that succeeds stores the
\* number of records served, whatever happened to the account's other
\* lookups; the returned table carries these values.
C7_CountFailureIsolated ==
  \A i \in DOMAIN lookups :
    LET q == lookups[i] IN
    q.kind \in Resources =>
      \A j \in DOMAIN accounts_df :
        accounts_df[j].id = q.id =>
          /\ IF q.answer.ok
             THEN Num(q.kind)[j] = q.answer.rows
             ELSE /\ Num(q.kind)[j] = 0
                  /\ Logged("warning", WarnText(q.kind), q.id)
                  /\ ~(apc = "raised" /\ i = Len(lookups))
          /\ apc = "returned" =>
               /\ result[j].id = q.id
               /\ result[j].Articles = num_articles[j]
               /\ result[j].Projects = num_projects[j]
               /\ result[j].Collections = num_collections[j]

\* C7 witness: the call returned although the projects lookup of an account
\* failed; that account's articles and collections counts are the numbers
\* served, and a later account was looked up after the failure.
C7_Witness ==
  /\ apc = "returned"
  /\ \E i \in DOMAIN lookups :
       /\ lookups[i].kind = "projects" /\ ~lookups[i].answer.ok
       /\ \E k \in DOMAIN lookups : k > i /\ lookups[k].id # lookups[i].id
       /\ LET r == result[RowOf(lookups[i].id)] IN
            /\ r.Projects = 0
            /\ r.Articles = Held(r.id, "articles")
            /\ r.Collections = Held(r.id, "collections")

\* C19: when the base account listing is empty, get_account_details does
\* not raise, issues no per-account role or count request, and returns a
\* table of zero rows.
C19_EmptyListingWellFormed ==
  listing = << >> =>
    /\ apc # "raised"
    /\ lookups = << >>
    /\ apc = "returned" => result = << >>

\* Position of an account in the base listing; the emails the filter is
\* configured to exclude.
PosInListing(id) == CHOOSE i \in DOMAIN listing : listing[i].id = id
ExcludedEmail(e) == e \in {"admin", "test"}
Kept == {i \in DOMAIN listing : ~(ignore_admin /\ ExcludedEmail(listing[i].email))}

\* C20: with the filter enabled no role or count request is issued for an
\* account whose email is the administrative address or contains the
\* test-account substring; with or without the filter the returned table
\* has one row per account that was not excluded, in the relative order of
\* the base listing.
C20_FilterBeforeLoopOrderKept ==
  /\ \A i \in DOMAIN lookups : PosInListing(lookups[i].id) \in Kept
  /\ apc = "returned" =>
       /\ {PosInListing(result[j].id) : j \in DOMAIN result} = Kept
       /\ Len(result) = Cardinality(Kept)
       /\ \A j, k \in DOMAIN result :
            j < k => PosInListing(result[j].id) < PosInListing(result[k].id)
       /\ \A j \in DOMAIN result :
            result[j].email = listing[PosInListing(result[j].id)].email

\* C20 witness: the filter removed an account listed before a kept one;
\* the call looked the kept account up and returned its row alone.
C20_Witness ==
  /\ ignore_admin
  /\ apc = "returned"
  /\ Len(listing) = 2
  /\ ExcludedEmail(listing[1].email)
  /\ ~ExcludedEmail(listing[2].email)
  /\ Len(result) = 1 /\ result[1].id = listing[2].id
  /\ \A i \in DOMAIN lookups : lookups[i].id = listing[2].id
  /\ Len(lookups) = 4

\* The roles served for an account, and the key under which it holds the
\* group-association role.
RolesServed(id) ==
  (CHOOSE q \in {lookups[i] : i \in DOMAIN lookups} :
     q.kind = "roles" /\ q.id = id).answer.dict
GroupKeys(id) ==
  {RolesServed(id)[e].key : e \in {e \in DOMAIN RolesServed(id) :
                                     HasRole(RolesServed(id)[e], 11)}}
GroupNamed(key) ==
  (CHOOSE g \in {groups[i] : i \in DOMAIN groups} : g.id = key).name

\* C22: in the table get_account_details returns, the Group value of an
\* account that holds role 11 under a group key is the name of the group
\* with that id in the group listing, whatever the other ids and names of
\* the listing are; an account without that role has 'N/A'.
C22_GroupNameResolved ==
  apc = "returned" =>
    \A j \in DOMAIN result :
      IF GroupKeys(result[j].id) = {}
      THEN result[j].Group = <<"N", "/", "A">>
      ELSE \A key \in GroupKeys(result[j].id) : result[j].Group = GroupNamed(key)

\* The answer served to the request of a kind issued with an account id.
AnswerTo(kind, id) ==
  (CHOOSE q \in {lookups[i] : i \in DOMAIN lookups} :
     q.kind = kind /\ q.id = id).answer
CountServed(kind, id) ==
  IF AnswerTo(kind, id).ok THEN AnswerTo(kind, id).rows ELSE 0
HoldsRole(id, role) ==
  \E e \in DOMAIN AnswerTo("roles", id).dict :
    HasRole(AnswerTo("roles", id).dict[e], role)

C8_PaginationTermination ==
  lpc = "returned" =>
    /\ \A i \in DOMAIN pageReqs : pageReqs[i].page_size <= 1000
    /\ \A i \in DOMAIN pageReqs : pageReqs[i].page = i
    /\ LET last == pageReqs[Len(pageReqs)] IN
         Served(held, last.page, last.page_size) < last.page_size
    /\ got = held
    /\ held = 2250 => Len(pageReqs) = 3

\* ------------------------------------------------ properties of reserve_doi
Posts == {i \in DOMAIN events : events[i].kind = "POST"}

\* C9: once a reserve_doi call has minted an identifier, no later call
\* prompts or issues a minting request, and every call that returns from
\* then on returns the minted identifier; when it is the first call that
\* minted, exactly one minting request was issued in total.
C9_ReservationExactlyOnce ==
  \A i \in DOMAIN events :
    (events[i].kind = "POST" /\ events[i].ok) =>
      /\ \A j \in DOMAIN events :
           j > i => events[j].kind \notin {"PROMPT", "POST"}
      /\ \A r \in DOMAIN returned :
           returned[r].call >= events[i].call =>
             returned[r].value = events[i].doi
      /\ events[i].call = 1 => Cardinality(Posts) = 1

\* C9 witness: the first call prompted and minted, the second call has
\* returned the same identifier.
C9_Witness ==
  /\ \E i \in DOMAIN events :
       events[i].call = 1 /\ events[i].kind = "POST" /\ events[i].ok
  /\ Len(returned) = 2
  /\ returned[1].call = 1 /\ returned[2].call = 2
  /\ returned[2].value = returned[1].value
  /\ returned[1].value \in DoiIds

\* C11: a reserve_doi call whose check finds that the article has an
\* identifier returns that identifier at once: the call never prompts and
\* never issues a minting request, the article's identifier at the service
\* is still the one the check found when the call has returned, and the
\* skip is logged.
C11_ExistingReturnedUntouched ==
  \A i \in DOMAIN events :
    (events[i].kind = "GET" /\ events[i].ok /\ events[i].doi # NoDoi) =>
      /\ \A j \in DOMAIN events :
           events[j].call = events[i].call => events[j].kind = "GET"
      /\ \E r \in DOMAIN returned :
           returned[r] = [call |-> events[i].call, value |-> events[i].doi]
      /\ events[i].call = calls => (dpc = "returned" /\ remoteDoi = events[i].doi)
      /\ Logged("info", "DOI already reserved! Skipping...", 0)

\* C11 witness: a call on an article that already had an identifier has
\* returned it; the only request it made is the check.
C11_Witness ==
  /\ calls = 1 /\ dpc = "returned"
  /\ remoteDoi \in DoiIds
  /\ Len(events) = 1 /\ events[1].kind = "GET" /\ events[1].doi = remoteDoi
  /\ returned = << [call |-> 1, value |-> remoteDoi] >>

\* ---------------------------------- properties of reserve_doi in workflow
YesAnyCase ==
  {<<a, b, c>> : a \in {"y", "Y"}, b \in {"e", "E"}, c \in {"s", "S"}}

\* C10: a minting request is issued only right after a prompt answered
\* 'yes' in some letter case, and every such answer leads to the minting
\* request; after any other answer there is no minting request, reserve_doi
\* returns the empty doi of the check without raising, and the workflow
\* goes on to download_files.
C10_MintOnlyOnAffirmative ==
  /\ \A i \in DOMAIN events :
       events[i].kind = "POST" =>
         /\ i > 1
         /\ events[i - 1].kind = "PROMPT"
         /\ events[i - 1].call = events[i].call
         /\ events[i - 1].resp \in YesAnyCase
  /\ \A i \in DOMAIN events :
       (events[i].kind = "PROMPT" /\ events[i].resp \in YesAnyCase) =>
         \/ dpc = "mint" /\ i = Len(events)
         \/ i < Len(events) /\ events[i + 1].kind = "POST"
  /\ \A i \in DOMAIN events :
       (events[i].kind = "PROMPT" /\ events[i].resp \notin YesAnyCase) =>
         /\ i = Len(events)
         /\ dpc = "returned"
         /\ returned = << [call |-> events[i].call, value |-> NoDoi] >>
         /\ wpc \notin {"start", "reserve", "done"}
         /\ wpc # "reserving" => run = 1
         /\ exc # "reserve_doi raised"

\* C10 witness: the operator answered 'no', nothing was minted, and the
\* workflow went on to fetch a file.
C10_Witness ==
  /\ \E i \in DOMAIN events :
       events[i].kind = "PROMPT" /\ events[i].resp = <<"n", "o">>
  /\ Posts = {}
  /\ remoteDoi = NoDoi
  /\ returned = << [call |-> 1, value |-> NoDoi] >>
  /\ wpc = "report"
  /\ \E f \in Files : Requested(f) /\ disk[f] = "full"

\* ------------------------------------------------- properties of workflow()
\* The deposit's folder was found by the lookup of the constructor.
FoundAtStart == wpc # "start" /\ ~new_set /\ located # {}

\* C12: when the deposit's folder is found when the workflow starts, the
\* workflow performs none of the intake steps: no folder is created, no
\* identifier check or reservation is made, no file is requested, the data
\* directory's mode is not touched, and no report, form, README or stage
\* advance step is called; when it is found under one stage the workflow
\* ends normally, with a warning that the folder exists and no exception.
C12_ExistingDepositShortCircuits ==
  FoundAtStart =>
    /\ \A i \in DOMAIN steps : steps[i].step = "check"
    /\ events = << >> /\ calls = 0 /\ dpc = "idle"
    /\ run = 0 /\ reqs = << >> /\ fpc = "idle" /\ disk = after1
    /\ dirMode = "none" /\ lockCount = 0
    /\ ~Logged("info", "Creating folder", 0)
    /\ Cardinality(located) = 1 =>
         /\ wpc = "done"
         /\ exc = "none"
         /\ log = << <<"warning", "Curation folder exists. Will not retrieve!", 0>> >>

\* C12 witness: the workflow has ended for a deposit that is under review,
\* with files from its earlier intake on disk and no identifier reserved:
\* nothing but the lookup was done.
C12_Witness ==
  /\ wpc = "done"
  /\ located = {"UnderReview"}
  /\ steps = <<Step("check", "call"), Step("check", "return")>>
  /\ \E f \in Files : disk[f] = "full"
  /\ remoteDoi = NoDoi
  /\ events = << >> /\ reqs = << >>

\* The steps of workflow() in the order of lines 135-163.
StepOrder == <<"check", "reserve", "fetch", "report", "form", "readme", "advance">>

\* The steps so far were called in that order, each after the previous one
\* had returned; only the last one may have raised.
StepsInOrder ==
  \A k \in DOMAIN steps :
    IF k % 2 = 1
    THEN steps[k] = Step(StepOrder[(k + 1) \div 2], "call")
    ELSE /\ steps[k].step = StepOrder[k \div 2]
         /\ steps[k].ev \in {"return", "raise"}
         /\ steps[k].ev = "raise" => k = Len(steps)

\* C13: for a new deposit the workflow performs its steps in the fixed
\* order existence check, identifier reservation, file fetch, review
\* report, (form,) README generation, optional stage advance, each called
\* only after the previous one returned; it stops short of a step only when
\* the remote service or a collaborator made an earlier step fail, so once
\* the report and form steps have returned the README step is performed.
C13_FixedStepOrder ==
  new_set =>
    /\ StepsInOrder
    /\ wpc = "error" =>
         exc \in {"reserve_doi raised", "download_files raised",
                  "review_report raised", "retrieve_deposit_agreement raised"}

\* C17: when the deposit's folder exists under more than one stage root,
\* the lookup reports the ambiguous-stage error and the error ends the
\* workflow invocation: no stage is taken for the deposit's, the deposit is
\* treated neither as existing (no 'folder exists' warning, no normal end)
\* nor as new (no folder is created, no intake step is called).
C17_AmbiguousStageHalts ==
  (wpc # "start" /\ Cardinality(located) > 1) =>
    /\ get_source_stage(located) \notin Stages
    /\ wpc = "error"
    /\ exc = "AmbiguousStateError"
    /\ ~new_set
    /\ steps = <<Step("check", "call"), Step("check", "raise")>>
    /\ log = << >>
    /\ events = << >> /\ run = 0 /\ dirMode = "none"

\* C17 witness: the workflow has ended in the ambiguous-stage error for a
\* folder that is under both ToDo and UnderReview.
C17_Witness ==
  /\ located = {"ToDo", "UnderReview"}
  /\ wpc = "error"
  /\ exc = "AmbiguousStateError"
  /\ steps = <<Step("check", "call"), Step("check", "raise")>>

\* ---------------------------------------------- properties of move_to_next
\* The step being taken is a call of move_to_next.
MoveCalled ==
  /\ Len(steps') > Len(steps)
  /\ steps'[Len(steps) + 1] = Step("advance", "call")

\* C18: a call of move_to_next for a deposit that is at the last stage
\* ends in the invalid-transition error and changes nothing: the folder
\* stays under the last stage root, and the files on disk, the mode of the
\* data directory and the identifier reserved at the service are what they
\* were before the call.
C18_TerminalTransition ==
  [][(MoveCalled /\ located = {LastStage}) =>
       /\ exc' = "InvalidTransitionError"
       /\ wpc' = "error"
       /\ located' = located
       /\ disk' = disk /\ dirMode' = dirMode
       /\ remoteDoi' = remoteDoi]_vars

\* C18 witness: a run that created the deposit, reserved its identifier,
\* fetched its files and moved it twice has ended in the invalid-transition
\* error at the third move; the deposit is at the last stage, the files and
\* the identifier are still there.
C18_Witness ==
  /\ new_set
  /\ exc = "InvalidTransitionError"
  /\ located = {LastStage}
  /\ \A f \in Files : disk[f] = "full"
  /\ remoteDoi \in DoiIds
  /\ \E i \in DOMAIN events : events[i].kind = "POST" /\ events[i].ok
  /\ steps[Len(steps)] = Step("advance", "raise")

\* C24: for a new deposit whose reservation, fetch, report and form steps
\* have all returned, the call that constructs the README handler does not
\* raise: the workflow goes on with the README step towards the
\* stage-advancement prompt.
C24_ReadmeStepReached ==
  (\E i \in DOMAIN steps : steps[i] = Step("form", "return")) =>
    /\ exc = "none"
    /\ wpc # "error"
    /\ \A i \in DOMAIN steps : steps[i] # Step("readme", "raise")

\* --------------------------------------- properties of repeated invocations
\* C23: when an earlier invocation created the deposit's folders and ended
\* before every file was fetched, a later invocation for the same article
\* fetches what is missing: once it has ended, every file that the service
\* serves is on disk.
C23_LaterRunFetchesMissing ==
  (/\ invocation >= 2
   /\ Logged("info", "Creating folder", 0)
   /\ wpc \in {"done", "error"}) =>
    \A f \in Files : authResp[f] = "ok" => disk[f] = "full"

\* ------------------------------------------------ properties of ReadmeClass
\* C25: whenever README.txt is checked for or written, the path used lies
\* in the deposit's folder under the stage root where the deposit resides
\* at that moment; for a deposit the intake has just created and that has
\* not been advanced, that is the ToDo root.
C25_ReadmePathInDepositFolder ==
  \A i \in DOMAIN readme_events :
    LET e == readme_events[i] IN
      /\ e.at = {e.root}
      /\ (e.at = {todo_folder}) => e.root = todo_folder

\* C27: README generation never overwrites an existing README.txt.  A
\* README.txt that exists is left as it is by every step; the file changes
\* only by being created where exists() found none, and main() creates it
\* only on the response "Yes" exactly: after any other response there is
\* no new file.
C27_NeverOverwrites ==
  [][/\ readme_file # "absent" => readme_file' = readme_file
     /\ readme_file' # readme_file =>
          /\ Len(readme_events') = Len(readme_events) + 1
          /\ LET e == readme_events'[Len(readme_events')] IN
               /\ e.wrote /\ ~e.found
               /\ readme_file' = "rendered"
               /\ e.op = "main" => e.resp = <<"Y", "e", "s">>
     /\ (/\ Len(readme_events') = Len(readme_events) + 1
         /\ LET e == readme_events'[Len(readme_events')] IN
              e.op = "main" /\ e.resp # <<"Y", "e", "s">>)
          => readme_file' = readme_file]_vars

\* main() created the file on "Yes", and a later construct() found it and
\* left it.
C27_Witness ==
  /\ Len(readme_events) = 2
  /\ readme_events[1].op = "main" /\ readme_events[1].wrote
  /\ readme_events[1].resp = <<"Y", "e", "s">>
  /\ readme_events[2].op = "construct" /\ readme_events[2].found
  /\ ~readme_events[2].wrote
  /\ readme_file = "rendered"

====
